---- MODULE Spec2Model ----
(***************************************************************************)
(* A model of swarm-exec (src/swarm-exec.py): the controlling process that *)
(* creates an ephemeral Docker Swarm service, follows its logs counting    *)
(* completion markers, removes the service, and reacts to SIGINT/SIGTERM.  *)
(*                                                                         *)
(* The program state is the position of the main flow (pc), the stack of   *)
(* signal-handler invocations running on the main thread (hstack), the     *)
(* subprocesses it has spawned (procs, follow), the watcher's locals and   *)
(* what it has printed (out).  The platform is the service (svc) and the   *)
(* log stream (stream, eof).                                               *)
(***************************************************************************)
EXTENDS Integers, Sequences, FiniteSets, Bags, TLC

\* Bounds of the model.
MaxSignals == 2
MaxLines == 2
MaxReplicas == 2
PipeLines == 1

Signals == {"SIGINT", "SIGTERM"}
Modes == {"global", "replicated"}
Nodes == 1 .. MaxReplicas

\* A line of the aggregated log stream: whether the text contains
\* DOCKER_SWARM_COMMAND_STATUS=1 and, if so, the node whose task wrote it
\* (for the other lines the node is left out, as 0: the program tells neither
\* apart by node).
Line == {[marker |-> TRUE, node |-> n] : n \in Nodes}
            \cup {[marker |-> FALSE, node |-> 0]}

VARIABLES
    opts,       \* the parsed arguments: rm, logs, quiet, verbose, mode
    pc,         \* the position of main()
    handler,    \* the disposition of SIGINT and of SIGTERM
    hstack,     \* the running invocations of cleanup(): the subprocess each
                \* waits for, innermost last
    hruns,      \* invocations of cleanup() started
    hdone,      \* invocations of cleanup() that have ended (exit or raise)
    signals,    \* signals delivered so far
    procs,      \* the subprocesses started by exec_command, in order
    svc,        \* the platform: is the session's service there
    made,       \* has the platform ever created the session's service
    exit,       \* the status the controlling process ended with
    follow,     \* the log-follow subprocess of output_container_logs
    query,      \* the outcome of number_of_replicas
    replicas,   \* output_container_logs: replicas
    finished,   \* output_container_logs: finished
    wend,       \* how the read loop of output_container_logs ended
    stream,     \* lines written to the follow's pipe and not yet read
    eof,        \* the follow's stdout has reached end of file
    consumed,   \* the lines the watcher has read, as a bag
    emitted,    \* lines the platform has written so far
    out,        \* what the main thread has printed, in order
    inv,        \* two invocations of the program naming their sessions
    tpl,        \* main building the command template from its inputs
    call,       \* exec_command: the position of the caller
    sub,        \* exec_command: the subprocess writing its output
    pipe,       \* exec_command: the lines held by the stdout and stderr pipes
    thr,        \* exec_command: the two stream_output threads
    output,     \* exec_command: the nonlocal output both threads add to
    echoed,     \* exec_command: the lines the threads have printed
    node        \* the wrapped command running on each node of the service

\* exec_command's own state.
dvars == << call, sub, pipe, thr, output, echoed >>

\* The variables of the parts of the program that are followed on their own
\* (session naming, the template, exec_command's threads, the nodes); the
\* main flow leaves them alone.
xvars == << inv, tpl, dvars, node >>

vars == << opts, pc, handler, hstack, hruns, hdone, signals, procs, svc, made,
           exit, follow, query, replicas, finished, wend, stream, eof,
           consumed, emitted, out, xvars >>

wvars == << follow, query, replicas, finished, wend, stream, eof, consumed,
            emitted >>

hvars == << handler, hstack, hruns, hdone, signals >>

Options == [rm : BOOLEAN, logs : BOOLEAN, quiet : BOOLEAN, verbose : BOOLEAN,
            mode : Modes]

\* What print writes: the kind of the text ("LOG" for a workload line).
Ev(e) == e
LogEv(l) == "LOG"

\* The parts followed on their own, when they are not being followed.
NoFlags(o) == ~o.rm /\ ~o.logs /\ ~o.quiet /\ ~o.verbose
InvOff == inv = "off"
TplOff == tpl = "off"
Streams == {"stdout", "stderr"}
DrainOff ==
    /\ call = "off"
    /\ sub = "off"
    /\ pipe = "off"
    /\ thr = "off"
    /\ output = "off"
    /\ echoed = "off"
NodeOff == node = "off"

\* main after parse_args, before the first handler is installed.
MainInit ==
    /\ opts \in Options
    /\ pc = "sigint"
    /\ handler = [s \in Signals |-> "default"]
    /\ hstack = << >>
    /\ hruns = 0
    /\ hdone = 0
    /\ signals = 0
    /\ procs = << >>
    /\ svc = "absent"
    /\ made = FALSE
    /\ exit = "none"
    /\ follow = "none"
    /\ query = "none"
    /\ replicas = 0
    /\ finished = 0
    /\ wend = "none"
    /\ stream = << >>
    /\ eof = FALSE
    /\ consumed = EmptyBag
    /\ emitted = 0
    /\ out = << >>

Init == MainInit /\ InvOff /\ TplOff /\ DrainOff /\ NodeOff

\* The main flow runs when the process is alive and no handler is running.
MainAt(p) == exit = "none" /\ hstack = << >> /\ pc = p

\* subprocess.Popen in exec_command: a running subprocess of the given kind
\* started from the main flow or from the handler.  echo is print_output:
\* whether the two drain threads are started on its pipes.
Popen(kind, origin) ==
    [kind |-> kind, origin |-> origin, state |-> "running", rc |-> 0,
     effect |-> FALSE, echo |-> ~opts.quiet]

\* exec_command after process.wait(): a non-zero return code raises
\* subprocess.CalledProcessError, zero returns the output.
exec_command(p) == IF p.rc # 0 THEN "raise" ELSE "return"

\* The try block of main: the lines at which a CalledProcessError raised on
\* the main thread is caught by the except clause.
InTry(p) == p \in {"launch_popen", "launch_wait"}

\* main: signal.signal(signal.SIGINT, cleanup)
InstallSigint ==
    /\ MainAt("sigint")
    /\ UNCHANGED xvars
    /\ handler' = [handler EXCEPT !["SIGINT"] = "cleanup"]
    /\ pc' = "sigterm"
    /\ UNCHANGED << opts, hstack, hruns, hdone, signals, procs, svc, made,
                    exit, out >>
    /\ UNCHANGED wvars

\* InstallSigterm with the registration left out: SIGTERM keeps its default.
InstallSigterm_skip ==
    /\ MainAt("sigterm")
    /\ UNCHANGED xvars
    /\ pc' = "banner"
    /\ UNCHANGED << opts, handler, hstack, hruns, hdone, signals, procs, svc,
                    made, exit, out >>
    /\ UNCHANGED wvars

\* main: signal.signal(signal.SIGTERM, cleanup)
InstallSigterm ==
    /\ MainAt("sigterm")
    /\ UNCHANGED xvars
    /\ handler' = [handler EXCEPT !["SIGTERM"] = "cleanup"]
    /\ pc' = "banner"
    /\ UNCHANGED << opts, hstack, hruns, hdone, signals, procs, svc, made,
                    exit, out >>
    /\ UNCHANGED wvars

\* main: if inputs.verbose: print the command and the template.
Banner ==
    /\ MainAt("banner")
    /\ UNCHANGED xvars
    /\ out' = IF opts.verbose THEN Append(out, Ev("template")) ELSE out
    /\ pc' = "launch_popen"
    /\ UNCHANGED << opts, procs, svc, made, exit >>
    /\ UNCHANGED hvars
    /\ UNCHANGED wvars

\* main, inside try: exec_command(command_template) up to process.wait().
LaunchPopen ==
    /\ MainAt("launch_popen")
    /\ UNCHANGED xvars
    /\ procs' = Append(procs, Popen("create", "main"))
    /\ pc' = "launch_wait"
    /\ UNCHANGED << opts, svc, made, exit, out >>
    /\ UNCHANGED hvars
    /\ UNCHANGED wvars

\* The subprocess of the creation call.
MainCreate == CHOOSE i \in DOMAIN procs : procs[i].kind = "create"

\* main, inside try: process.wait() returns in exec_command; a non-zero
\* return code raises CalledProcessError, which the except clause catches.
LaunchWait ==
    /\ MainAt("launch_wait")
    /\ UNCHANGED xvars
    /\ procs[MainCreate].state = "exited"
    /\ pc' = IF exec_command(procs[MainCreate]) = "raise" THEN "launch_except"
             ELSE "check_logs"
    /\ UNCHANGED << opts, procs, svc, made, exit, out >>
    /\ UNCHANGED hvars
    /\ UNCHANGED wvars

\* main: except subprocess.CalledProcessError as e: print(e)
LaunchExcept ==
    /\ MainAt("launch_except")
    /\ UNCHANGED xvars
    /\ out' = Append(out, Ev("error"))
    /\ pc' = "check_logs"
    /\ UNCHANGED << opts, procs, svc, made, exit >>
    /\ UNCHANGED hvars
    /\ UNCHANGED wvars

\* main: if inputs.logs: (print) and call output_container_logs.
CheckLogs ==
    /\ MainAt("check_logs")
    /\ UNCHANGED xvars
    /\ IF opts.logs
       THEN /\ pc' = "watch_popen"
            /\ out' = IF opts.verbose THEN Append(out, Ev("waiting")) ELSE out
       ELSE /\ pc' = "check_rm"
            /\ out' = out
    /\ UNCHANGED << opts, procs, svc, made, exit >>
    /\ UNCHANGED hvars
    /\ UNCHANGED wvars

\* CheckRm with the test of inputs.rm dropped: the removal is always issued.
CheckRm_always ==
    /\ MainAt("check_rm")
    /\ UNCHANGED xvars
    /\ pc' = "rm_popen"
    /\ out' = IF opts.verbose THEN Append(out, Ev("removing")) ELSE out
    /\ UNCHANGED << opts, procs, svc, made, exit >>
    /\ UNCHANGED hvars
    /\ UNCHANGED wvars

\* main: if inputs.rm: time.sleep(1); (print); then the removal call.
CheckRm ==
    /\ MainAt("check_rm")
    /\ UNCHANGED xvars
    /\ IF opts.rm
       THEN /\ pc' = "rm_popen"
            /\ out' = IF opts.verbose THEN Append(out, Ev("removing")) ELSE out
       ELSE /\ pc' = "return"
            /\ out' = out
    /\ UNCHANGED << opts, procs, svc, made, exit >>
    /\ UNCHANGED hvars
    /\ UNCHANGED wvars

\* The subprocess of the main flow's removal call.
MainRm ==
    CHOOSE i \in DOMAIN procs :
        procs[i].kind = "rm" /\ procs[i].origin = "main"

\* main: exec_command("docker service rm ...") up to process.wait().
RmPopen ==
    /\ MainAt("rm_popen")
    /\ UNCHANGED xvars
    /\ procs' = Append(procs, Popen("rm", "main"))
    /\ pc' = "rm_wait"
    /\ UNCHANGED << opts, svc, made, exit, out >>
    /\ UNCHANGED hvars
    /\ UNCHANGED wvars

\* main: process.wait() returns in the removal's exec_command; outside any
\* try, so a CalledProcessError ends the process with a traceback.
RmWait ==
    /\ MainAt("rm_wait")
    /\ UNCHANGED xvars
    /\ procs[MainRm].state = "exited"
    /\ IF exec_command(procs[MainRm]) = "raise"
       THEN /\ exit' = "error"
            /\ pc' = pc
       ELSE /\ exit' = exit
            /\ pc' = "return"
    /\ UNCHANGED << opts, procs, svc, made, out >>
    /\ UNCHANGED hvars
    /\ UNCHANGED wvars

\* main returns: the interpreter exits with status 0.
Return ==
    /\ MainAt("return")
    /\ UNCHANGED xvars
    /\ exit' = "ok"
    /\ UNCHANGED << opts, pc, procs, svc, made, out >>
    /\ UNCHANGED hvars
    /\ UNCHANGED wvars

\* The variables the watcher's steps leave alone.
nowatch == << opts, procs, svc, made >>

\* output_container_logs: Popen of "docker service logs --follow"; finished = 0.
WatchPopen ==
    /\ MainAt("watch_popen")
    /\ UNCHANGED xvars
    /\ follow' = "running"
    /\ finished' = 0
    /\ pc' = "watch_query"
    /\ UNCHANGED << query, replicas, wend, stream, eof, consumed, emitted >>
    /\ UNCHANGED << exit, out >>
    /\ UNCHANGED nowatch
    /\ UNCHANGED hvars

\* number_of_replicas: "docker service ls" filtered by the name and by
\* mode=global prints a row only for an existing global service; int() of the
\* second field of its Replicas column, and ValueError on the empty output.
HasRow == svc = "present" /\ opts.mode = "global"

number_of_replicas(n) == IF HasRow THEN [ok |-> TRUE, n |-> n]
                         ELSE [ok |-> FALSE, n |-> 0]

\* output_container_logs: replicas = number_of_replicas(container_name).  The
\* ValueError is caught nowhere: the process ends with a traceback, the
\* follow subprocess still running.
WatchQuery ==
    /\ MainAt("watch_query")
    /\ UNCHANGED xvars
    /\ \E n \in 0 .. MaxReplicas :
         LET r == number_of_replicas(n) IN
         IF r.ok
         THEN /\ query' = "ok"
              /\ replicas' = r.n
              /\ pc' = "watch_read"
              /\ UNCHANGED << exit, wend >>
         ELSE /\ query' = "failed"
              /\ exit' = "error"
              /\ wend' = "error"
              /\ UNCHANGED << replicas, pc >>
    /\ UNCHANGED << follow, finished, stream, eof, consumed, emitted, out >>
    /\ UNCHANGED nowatch
    /\ UNCHANGED hvars

\* CountLine with the test for the marker dropped: every line counts.
CountLine_every(l, f) == f + 1

\* The body of the read loop for one line: count a marker line, else print
\* it when logs is set.
CountLine(l, f) == IF l.marker THEN f + 1 ELSE f

PrintLine(l, o) == IF ~l.marker /\ opts.logs THEN Append(o, LogEv(l)) ELSE o

\* if finished >= replicas: print, terminate, break.
Complete(f, r) == f >= r

\* output_container_logs: one iteration of the loop over readline, which
\* blocks until the pipe holds a line or is at end of file.
WatchRead ==
    /\ MainAt("watch_read")
    /\ UNCHANGED xvars
    /\ \/ /\ stream # << >>
          /\ LET l == Head(stream)
                 f == CountLine(l, finished)
             IN  /\ stream' = Tail(stream)
                 /\ consumed' = consumed (+) SetToBag({l})
                 /\ finished' = f
                 /\ IF Complete(f, replicas)
                    THEN /\ out' = Append(PrintLine(l, out), Ev("notice"))
                         /\ follow' = IF follow = "running" THEN "terminated"
                                      ELSE follow
                         /\ wend' = "notice"
                         /\ pc' = "watch_close"
                    ELSE /\ out' = PrintLine(l, out)
                         /\ UNCHANGED << follow, wend, pc >>
       \/ /\ stream = << >>
          /\ eof
          /\ wend' = "eof"
          /\ pc' = "watch_close"
          /\ UNCHANGED << stream, consumed, finished, out, follow >>
    /\ UNCHANGED << query, replicas, eof, emitted, exit >>
    /\ UNCHANGED nowatch
    /\ UNCHANGED hvars

\* output_container_logs: process.stdout.close(); process.wait().
WatchClose ==
    /\ MainAt("watch_close")
    /\ UNCHANGED xvars
    /\ follow # "running"
    /\ pc' = "check_rm"
    /\ UNCHANGED wvars
    /\ UNCHANGED << exit, out >>
    /\ UNCHANGED nowatch
    /\ UNCHANGED hvars

\* A signal is delivered to the live process.  With the default disposition
\* it ends the process (KeyboardInterrupt, or death by SIGTERM).  With cleanup
\* installed the handler starts on the main thread, on top of whatever the
\* main thread was doing (an earlier invocation of the handler included), and
\* runs to its process.wait(): (print), Popen of "docker service rm".
Signal(sig) ==
    /\ exit = "none"
    /\ UNCHANGED xvars
    /\ signals < MaxSignals
    /\ signals' = signals + 1
    /\ IF handler[sig] = "cleanup"
       THEN /\ procs' = Append(procs, Popen("rm", "handler"))
            /\ hstack' = Append(hstack, Len(procs) + 1)
            /\ hruns' = hruns + 1
            /\ out' = IF opts.verbose THEN Append(out, Ev("cleaning")) ELSE out
            /\ exit' = exit
       ELSE /\ exit' = "signal"
            /\ UNCHANGED << hstack, hruns, procs, out >>
    /\ UNCHANGED << opts, pc, handler, hdone, svc, made >>
    /\ UNCHANGED wvars

\* The removal subprocess the innermost handler invocation waits for.
Top == hstack[Len(hstack)]

\* cleanup: process.wait() returns in the handler's exec_command.  On return
\* code 0, exit(0): SystemExit unwinds every frame and the process exits 0.
\* Otherwise CalledProcessError leaves the handler and every handler frame
\* under it, and is raised at the interrupted line of main: caught there by
\* the except clause when that line is in the try block, uncaught otherwise.
cleanup ==
    /\ exit = "none"
    /\ UNCHANGED xvars
    /\ hstack # << >>
    /\ procs[Top].state = "exited"
    /\ hstack' = << >>
    /\ hdone' = hdone + Len(hstack)
    /\ IF exec_command(procs[Top]) = "return"
       THEN /\ exit' = "ok"
            /\ pc' = pc
       ELSE IF InTry(pc)
            THEN /\ pc' = "launch_except"
                 /\ exit' = exit
            ELSE /\ exit' = "error"
                 /\ pc' = pc
    /\ UNCHANGED << opts, handler, hruns, signals, procs, svc, made, out >>
    /\ UNCHANGED wvars

\* The platform creates the service while "docker service create" runs.
CreateService(i) ==
    /\ procs[i].kind = "create"
    /\ UNCHANGED xvars
    /\ procs[i].state = "running"
    /\ ~procs[i].effect
    /\ procs' = [procs EXCEPT ![i].effect = TRUE]
    /\ svc' = "present"
    /\ made' = TRUE
    /\ UNCHANGED << opts, pc, exit, out >>
    /\ UNCHANGED hvars
    /\ UNCHANGED wvars

\* "docker service create" exits: 0 only with the service created, non-zero
\* with the service absent or partially created.
CreateExit(i, rc) ==
    /\ procs[i].kind = "create"
    /\ UNCHANGED xvars
    /\ procs[i].state = "running"
    /\ rc = 0 => procs[i].effect
    /\ procs' = [procs EXCEPT ![i].state = "exited", ![i].rc = rc]
    /\ UNCHANGED << opts, pc, svc, made, exit, out >>
    /\ UNCHANGED hvars
    /\ UNCHANGED wvars

\* "docker service rm" exits: it removes the service and exits 0, or finds no
\* such service and exits 1.
RmExit(i) ==
    /\ procs[i].kind = "rm"
    /\ UNCHANGED xvars
    /\ procs[i].state = "running"
    /\ procs' = [procs EXCEPT ![i].state = "exited",
                              ![i].effect = (svc = "present"),
                              ![i].rc = IF svc = "present" THEN 0 ELSE 1]
    /\ svc' = "absent"
    /\ UNCHANGED << opts, pc, made, exit, out >>
    /\ UNCHANGED hvars
    /\ UNCHANGED wvars

\* A task of the service writes a line, which the follow passes on when its
\* pipe has room.  (Lines written while a handler runs are left out: the
\* read loop is never resumed after a handler.)
EmitLine(l) ==
    /\ exit = "none"
    /\ UNCHANGED xvars
    /\ hstack = << >>
    /\ follow = "running"
    /\ emitted < MaxLines
    /\ Len(stream) < PipeLines
    /\ stream' = Append(stream, l)
    /\ emitted' = emitted + 1
    /\ UNCHANGED << follow, query, replicas, finished, wend, eof, consumed >>
    /\ UNCHANGED << opts, pc, procs, svc, made, exit, out >>
    /\ UNCHANGED hvars

\* The follow subprocess ends by itself (no such service, the service
\* removed, the daemon gone): its pipe reaches end of file.
EndStream ==
    /\ exit = "none"
    /\ UNCHANGED xvars
    /\ hstack = << >>
    /\ follow = "running"
    /\ follow' = "exited"
    /\ eof' = TRUE
    /\ UNCHANGED << query, replicas, finished, wend, stream, consumed, emitted >>
    /\ UNCHANGED << opts, pc, procs, svc, made, exit, out >>
    /\ UNCHANGED hvars

\* The steps of the controlling process's main thread.
MainStep ==
    \/ InstallSigint
    \/ InstallSigterm
    \/ Banner
    \/ LaunchPopen
    \/ LaunchWait
    \/ LaunchExcept
    \/ CheckLogs
    \/ WatchPopen
    \/ WatchQuery
    \/ WatchRead
    \/ WatchClose
    \/ CheckRm
    \/ RmPopen
    \/ RmWait
    \/ Return
    \/ cleanup

\* The steps of the subprocesses started by exec_command.
ProcStep ==
    \E i \in DOMAIN procs :
        \/ CreateService(i)
        \/ \E rc \in {0, 1} : CreateExit(i, rc)
        \/ RmExit(i)

\* The steps of the environment: signals and the log stream.
EnvStep ==
    \/ \E sig \in Signals : Signal(sig)
    \/ \E l \in Line : EmitLine(l)
    \/ EndStream

Next == MainStep \/ ProcStep \/ EnvStep

Spec == Init /\ [][Next]_vars

\* The main thread keeps running and every docker subprocess ends; signals
\* and log lines come or not.
FairSpec == Spec /\ WF_vars(MainStep) /\ WF_vars(ProcStep)


(***************************************************************************)
(* Session naming (main, lines 114-117), followed for two invocations of   *)
(* the program side by side.                                               *)
(***************************************************************************)

\* Bounds of the clock readings.
MaxSec == 1
MaxUsec == 1

\* os.urandom(4): four bytes.
NameBytes == 4

\* The byte values the model draws from (the lowest and the highest byte).
ByteVals == {0, 255}

\* The variables of the main flow.
mvars == << opts, pc, handler, hstack, hruns, hdone, signals, procs, svc,
            made, exit, follow, query, replicas, finished, wend, stream, eof,
            consumed, emitted, out >>

\* datetime.now(utc): a reading of the clock, seconds and microseconds.
Now == [sec : 0 .. MaxSec, usec : 0 .. MaxUsec]

\* os.urandom(4)
urandom == [1 .. NameBytes -> ByteVals]

\* now.strftime('%Y-%m-%d_%H%M%S'): the reading down to the second.
strftime(now) == now.sec

\* bytes.hex(): two hexadecimal digits for each byte, high digit first.
hex(bs) ==
    [i \in 1 .. 2 * Len(bs) |->
        IF i % 2 = 1 THEN bs[(i + 1) \div 2] \div 16 ELSE bs[i \div 2] % 16]

\* f"swarm-exec_{now.strftime(...)}_{os.urandom(4).hex()}"
container_name(now, rnd) == << "swarm-exec", strftime(now), hex(rnd) >>

\* Invocation i reads the clock and the random source.
NameRead(i) ==
    /\ inv[i].pc = "start"
    /\ \E now \in Now, rnd \in urandom :
         inv' = [inv EXCEPT ![i] = [pc |-> "read", now |-> now, rnd |-> rnd]]
    /\ UNCHANGED << mvars, tpl, dvars, node >>

\* Invocation i builds its session name.
NameBuild(i) ==
    /\ inv[i].pc = "read"
    /\ inv' = [inv EXCEPT ![i] =
                 [pc |-> "named", now |-> inv[i].now, rnd |-> inv[i].rnd,
                  name |-> container_name(inv[i].now, inv[i].rnd)]]
    /\ UNCHANGED << mvars, tpl, dvars, node >>

NameNext == \E i \in {1, 2} : NameRead(i) \/ NameBuild(i)

\* Two invocations started with the command alone, at main's first line.
NameInit ==
    /\ MainInit /\ NoFlags(opts) /\ opts.mode = "global"
    /\ inv = [i \in {1, 2} |-> [pc |-> "start"]]
    /\ TplOff /\ DrainOff /\ NodeOff

NameSpec == NameInit /\ [][NameNext]_vars

(***************************************************************************)
(* The command template (main, lines 119-127) as the sequence of its       *)
(* parts.                                                                  *)
(***************************************************************************)

\* Bound of the length of the user command.
MaxCmd == 3

MarkerStmt == "echo DOCKER_SWARM_COMMAND_STATUS=1"
IdleLoop == "while true; do sleep 3600; done"

\* The parts a user command is made of: a word, a separator, and the text
\* of the marker statement itself.
CmdParts == {"ls", ";", MarkerStmt}
RECURSIVE SeqsUpTo(_, _)
SeqsUpTo(S, n) ==
    IF n = 0 THEN {<< >>}
    ELSE LET P == SeqsUpTo(S, n - 1)
         IN  P \cup {Append(q, x) : q \in {r \in P : Len(r) = n - 1}, x \in S}
Commands == SeqsUpTo(CmdParts, MaxCmd)

\* The template with the marker statement put before the user command.
command_template_early(name, mode, command) ==
    << "docker service create", "--name", name, "--mode", mode,
       "--cap-add=ALL",
       "--mount type=bind,source=/var/run/docker.sock,target=/var/run/docker.sock",
       "--restart-condition none", "docker:cli", "sh -c", "\"" >>
    \o << MarkerStmt, ";" >> \o command
    \o << "&&", IdleLoop, "\"" >>

\* command_template = f"""docker service create ... sh -c "{inputs.command}
\* ; echo DOCKER_SWARM_COMMAND_STATUS=1 && while true; do sleep 3600; done" """
command_template(name, mode, command) ==
    << "docker service create", "--name", name, "--mode", mode,
       "--cap-add=ALL",
       "--mount type=bind,source=/var/run/docker.sock,target=/var/run/docker.sock",
       "--restart-condition none", "docker:cli", "sh -c", "\"" >>
    \o command
    \o << ";", MarkerStmt, "&&", IdleLoop, "\"" >>

\* main after parse_args: the inputs of the template.
TplInit ==
    /\ tpl \in [pc : {"name"}, command : Commands, mode : Modes]
    /\ tpl.mode = opts.mode
    /\ NoFlags(opts)

\* main: container_name = ... (the text of two session names)
TplName ==
    /\ tpl.pc = "name"
    /\ \E name \in {"swarm-exec_1970-01-01_000000_00000000",
                     "swarm-exec_1970-01-01_000001_ffffffff"} :
         tpl' = [pc |-> "template", command |-> tpl.command,
                 mode |-> tpl.mode, name |-> name]
    /\ UNCHANGED << mvars, inv, dvars, node >>

\* main: command_template = ...
TplBuild ==
    /\ tpl.pc = "template"
    /\ tpl' = [pc |-> "built", command |-> tpl.command, mode |-> tpl.mode,
               name |-> tpl.name,
               template |-> command_template(tpl.name, tpl.mode, tpl.command)]
    /\ UNCHANGED << mvars, inv, dvars, node >>

TplNext == TplName \/ TplBuild

TemplateInit == MainInit /\ InvOff /\ TplInit /\ DrainOff /\ NodeOff

TemplateSpec == TemplateInit /\ [][TplNext]_vars


(***************************************************************************)
(* exec_command (lines 39-71) with its pipes and its two stream_output     *)
(* threads, followed for the creation call of main.                        *)
(***************************************************************************)

\* Bounds: the lines the subprocess writes, and the lines a pipe holds
\* before a write to it blocks.
MaxOut == 3
PipeCap == 1

Prefix(s) == IF s = "stdout" THEN "OUT" ELSE "ERR"

\* main inside exec_command(command_template, print_output=not inputs.quiet),
\* just after subprocess.Popen: both pipes empty, no thread started.
DrainInit ==
    /\ opts \in {o \in Options : ~o.rm /\ ~o.logs /\ ~o.verbose
                                   /\ o.mode = "global"}
    /\ pc = "launch_wait"
    /\ handler = [s \in Signals |-> "cleanup"]
    /\ hstack = << >>
    /\ hruns = 0
    /\ hdone = 0
    /\ signals = 0
    /\ procs = << Popen("create", "main") >>
    /\ svc = "absent"
    /\ made = FALSE
    /\ exit = "none"
    /\ follow = "none"
    /\ query = "none"
    /\ replicas = 0
    /\ finished = 0
    /\ wend = "none"
    /\ stream = << >>
    /\ eof = FALSE
    /\ consumed = EmptyBag
    /\ emitted = 0
    /\ out = << >>
    /\ InvOff /\ TplOff /\ NodeOff
    /\ call = "threads"
    /\ sub = [state |-> "running", want |-> "none", n |-> 0, rc |-> 0]
    /\ pipe = [s \in Streams |-> << >>]
    /\ thr = [s \in Streams |-> [pc |-> "none"]]
    /\ output = << >>
    /\ echoed = {}

\* if print_output: start one thread on each pipe.  Then process.wait().
StartThreads ==
    /\ call = "threads"
    /\ thr' = IF procs[1].echo
              THEN [s \in Streams |-> [pc |-> "read"]]
              ELSE thr
    /\ call' = "wait"
    /\ UNCHANGED << mvars, inv, tpl, node, sub, pipe, output, echoed >>

\* return_code = process.wait(): returns once the subprocess has exited;
\* raise on a non-zero code, else return output.
Wait ==
    /\ call = "wait"
    /\ sub.state = "exited"
    /\ call' = IF sub.rc # 0 THEN "raised" ELSE "returned"
    /\ UNCHANGED << mvars, inv, tpl, node, sub, pipe, thr, output, echoed >>

\* stream_output: pipe.readline() returns the next line, or '' at end of
\* file (the pipe is empty and the subprocess has closed it), which ends the
\* loop: pipe.close().
ThrRead(s) ==
    /\ thr[s].pc = "read"
    /\ \/ /\ pipe[s] # << >>
          /\ thr' = [thr EXCEPT ![s] = [pc |-> "load", line |-> Head(pipe[s])]]
          /\ pipe' = [pipe EXCEPT ![s] = Tail(pipe[s])]
       \/ /\ pipe[s] = << >>
          /\ sub.state = "exited"
          /\ thr' = [thr EXCEPT ![s] = [pc |-> "done"]]
          /\ pipe' = pipe
    /\ UNCHANGED << mvars, inv, tpl, node, call, sub, output, echoed >>

\* stream_output: output += line, first half: the value of output is read.
ThrLoad(s) ==
    /\ thr[s].pc = "load"
    /\ thr' = [thr EXCEPT ![s] = [pc |-> "store", line |-> thr[s].line,
                                  tmp |-> output]]
    /\ UNCHANGED << mvars, inv, tpl, node, call, sub, pipe, output, echoed >>

\* stream_output: output += line, second half: the sum is stored; then
\* print(f"{prefix}: {line}").
ThrStore(s) ==
    /\ thr[s].pc = "store"
    /\ output' = Append(thr[s].tmp, thr[s].line)
    /\ echoed' = echoed \cup {<< Prefix(s), thr[s].line >>}
    /\ thr' = [thr EXCEPT ![s] = [pc |-> "read"]]
    /\ UNCHANGED << mvars, inv, tpl, node, call, sub, pipe >>

\* The subprocess comes to a write of a line to stdout or to stderr.
SubChoose(s) ==
    /\ sub.state = "running"
    /\ sub.want = "none"
    /\ sub.n < MaxOut
    /\ sub' = [sub EXCEPT !.want = s]
    /\ UNCHANGED << mvars, inv, tpl, node, call, pipe, thr, output, echoed >>

\* The write goes through when the pipe has room, and blocks until then.
SubWrite ==
    /\ sub.state = "running"
    /\ sub.want # "none"
    /\ Len(pipe[sub.want]) < PipeCap
    /\ pipe' = [pipe EXCEPT ![sub.want] = Append(@, sub.n + 1)]
    /\ sub' = [sub EXCEPT !.want = "none", !.n = sub.n + 1]
    /\ UNCHANGED << mvars, inv, tpl, node, call, thr, output, echoed >>

\* The subprocess exits, with a zero or a non-zero code.
SubExit(rc) ==
    /\ sub.state = "running"
    /\ sub.want = "none"
    /\ sub' = [sub EXCEPT !.state = "exited", !.rc = rc]
    /\ UNCHANGED << mvars, inv, tpl, node, call, pipe, thr, output, echoed >>

CallStep == StartThreads \/ Wait
ThrStep == \E s \in Streams : ThrRead(s) \/ ThrLoad(s) \/ ThrStore(s)
SubStep == (\E s \in Streams : SubChoose(s)) \/ SubWrite
               \/ (\E rc \in {0, 1} : SubExit(rc))

DrainNext == CallStep \/ ThrStep \/ SubStep

DrainSpec == DrainInit /\ [][DrainNext]_vars


(***************************************************************************)
(* The watch phase of a global service whose creation succeeded, with the  *)
(* text of the template (line 126) run by sh on each node:                 *)
(*   sh -c "{command} ; echo DOCKER_SWARM_COMMAND_STATUS=1 && while ..."   *)
(***************************************************************************)

\* The nodes of the swarm that run a task of the service.
Swarm == {n \in Nodes : node[n].pc # "off"}

\* How the user command can end inside the shell that runs the template: it
\* returns to the shell with a zero or a non-zero status, or it ends the
\* shell itself with that status (exit, exec, set -e, or text the shell
\* cannot parse).
Endings == [status : {"zero", "nonzero"}, shell : {"goes on", "ends"}]

\* main after a creation call that succeeded, --logs given, mode global; the
\* task of every node of the swarm has started the user command.
NodeInit ==
    /\ opts \in {o \in Options : o.logs /\ ~o.quiet /\ ~o.verbose
                                   /\ o.mode = "global"}
    /\ pc = "check_logs"
    /\ handler = [s \in Signals |-> "cleanup"]
    /\ hstack = << >>
    /\ hruns = 0
    /\ hdone = 0
    /\ signals = 0
    /\ procs = << [kind |-> "create", origin |-> "main", state |-> "exited",
                   rc |-> 0, effect |-> TRUE, echo |-> TRUE] >>
    /\ svc = "present"
    /\ made = TRUE
    /\ exit = "none"
    /\ follow = "none"
    /\ query = "none"
    /\ replicas = 0
    /\ finished = 0
    /\ wend = "none"
    /\ stream = << >>
    /\ eof = FALSE
    /\ consumed = EmptyBag
    /\ emitted = 0
    /\ out = << >>
    /\ InvOff /\ TplOff /\ DrainOff
    /\ \E k \in 0 .. MaxReplicas :
         node = [n \in Nodes |->
                   [pc |-> IF n <= k THEN "command" ELSE "off",
                    status |-> "none"]]

\* "{command} ;": whatever status the command returns, the shell goes on to
\* the echo; a command that ends the shell leaves nothing to go on.
AfterCommand(e) == IF e.shell = "ends" THEN "gone" ELSE "echo"

\* The user command ends on node n.
NodeCommand(n, e) ==
    /\ node[n].pc = "command"
    /\ svc = "present"
    /\ node' = [node EXCEPT ![n] = [pc |-> AfterCommand(e),
                                    status |-> e.status]]
    /\ UNCHANGED << mvars, inv, tpl, dvars >>

\* The user command writes a line of its own on node n.
NodeLog(n) ==
    /\ node[n].pc = "command"
    /\ svc = "present"
    /\ emitted < MaxLines
    /\ stream' = Append(stream, [marker |-> FALSE, node |-> 0])
    /\ emitted' = emitted + 1
    /\ UNCHANGED << opts, pc, hvars, procs, svc, made, exit, follow, query,
                    replicas, finished, wend, eof, consumed, out >>
    /\ UNCHANGED xvars

\* "echo DOCKER_SWARM_COMMAND_STATUS=1 &&" on node n: the marker line goes
\* to the service's log, and the shell enters the idle loop.
NodeEcho(n) ==
    /\ node[n].pc = "echo"
    /\ svc = "present"
    /\ stream' = Append(stream, [marker |-> TRUE, node |-> n])
    /\ emitted' = emitted + 1
    /\ node' = [node EXCEPT ![n].pc = "idle"]
    /\ UNCHANGED << opts, pc, hvars, procs, svc, made, exit, follow, query,
                    replicas, finished, wend, eof, consumed, out >>
    /\ UNCHANGED << inv, tpl, dvars >>

\* number_of_replicas on a service that is there: the platform reports one
\* replica for each node of the swarm.
NodeQuery == WatchQuery /\ replicas' = Cardinality(Swarm)

NodeMain ==
    \/ CheckLogs
    \/ WatchPopen
    \/ NodeQuery
    \/ WatchRead
    \/ WatchClose
    \/ CheckRm
    \/ RmPopen
    \/ RmWait
    \/ Return

NodeProc == \E i \in DOMAIN procs : RmExit(i)

NodeStep ==
    \E n \in Nodes :
        \/ \E e \in Endings : NodeCommand(n, e)
        \/ NodeLog(n)
        \/ NodeEcho(n)

NodeNext == NodeMain \/ NodeProc \/ NodeStep

NodeSpec == NodeInit /\ [][NodeNext]_vars

\* The main thread and the removal subprocess keep running, and a shell
\* that has come to its echo runs it; when a user command ends is left open.
NodeFairSpec ==
    /\ NodeSpec
    /\ WF_vars(NodeMain)
    /\ WF_vars(NodeProc)
    /\ \A n \in Nodes : WF_vars(NodeEcho(n))


(***************************************************************************)
(* The claims.                                                             *)
(***************************************************************************)

IsRm(i) == procs[i].kind = "rm"
Exited(i) == procs[i].state = "exited"
RmCalls(origin) == {i \in DOMAIN procs : IsRm(i) /\ procs[i].origin = origin}
Ended == exit # "none"

\* The creation call has exited non-zero.
LaunchFailed ==
    \E i \in DOMAIN procs :
        procs[i].kind = "create" /\ Exited(i) /\ procs[i].rc # 0

\* The nodes from which a marker line has been read.
MarkerNodes == {l.node : l \in {x \in BagToSet(consumed) : x.marker}}

\* The read loop has been left: by the completion notice or at end of file.
WatcherStopped == wend \in {"notice", "eof"}

\* C1: the watcher stops if and only if markers from N distinct nodes have
\* been observed: it has never stopped (nor printed the notice) with markers
\* from fewer than N distinct nodes, whether the stream ended early or a node
\* repeated its marker, and it has stopped once the N-th has been read.
C1_StopsIffNDistinctMarkers ==
    query = "ok" =>
        /\ WatcherStopped => Cardinality(MarkerNodes) >= replicas
        /\ (consumed # EmptyBag /\ Cardinality(MarkerNodes) >= replicas)
              => WatcherStopped

\* C2: however many signals reach the handler, the handler issues at most one
\* removal call, and a run in which the handler ran and that was not killed
\* by an unhandled signal ends with exactly one.
C2_ExactlyOneHandlerCleanup ==
    /\ Cardinality(RmCalls("handler")) <= 1
    /\ (exit \in {"ok", "error"} /\ hruns > 0)
          => Cardinality(RmCalls("handler")) = 1

\* C3: once an invocation of the handler has ended, whatever its removal call
\* returned, the process has terminated: the main flow is never resumed.
C3_CancellationWins == hdone > 0 => Ended

\* C4: a removal call made after the normal flow's removal has returned (the
\* handler's, finding the service already absent) ends without an error.
C4_SecondRemovalNoError ==
    \A j \in DOMAIN procs :
        ( /\ pc = "return"
          /\ RmCalls("main") # {}
          /\ j > MainRm
          /\ IsRm(j)
          /\ Exited(j) ) => exec_command(procs[j]) = "return"

\* C5: once the replica count is known, 0 <= finished <= replicas in every
\* state, for every count the platform reports, 0 included.
C5_FinishedWithinReplicas ==
    query = "ok" => (0 <= finished /\ finished <= replicas)

\* C6: a run (without signals) whose creation call exited non-zero ends with
\* exit status 0, for every --logs, --rm and platform state.
C6_LaunchFailureExitsZero ==
    (LaunchFailed /\ signals = 0 /\ Ended) => exit = "ok"

\* C7: in a run (without signals) whose creation call exited non-zero, the
\* watch phase has been entered if --logs was given and the removal call has
\* been issued if --rm was given, by the time the run ends.
C7_LaunchFailureDoesNotAbort ==
    (LaunchFailed /\ signals = 0 /\ Ended) =>
        /\ opts.logs => follow # "none"
        /\ opts.rm => RmCalls("main") # {}

\* C8 as stated: without --rm no removal call is ever issued, whether the run
\* completes or is cancelled, and a created service is still there.
C8_NoRemovalWithoutRm ==
    ~opts.rm =>
        /\ RmCalls("main") = {}
        /\ RmCalls("handler") = {}
        /\ made => svc = "present"

\* C8 as amended: the main flow issues its removal call only with --rm; in a
\* run without --rm in which the cancellation handler has not run, no removal
\* call is issued and a created service is still there.  (The handler removes
\* the service whether or not --rm was given.)
C8_RemovalOnlyByRmOrHandler ==
    /\ RmCalls("main") # {} => opts.rm
    /\ (~opts.rm /\ hruns = 0) =>
          /\ RmCalls("main") = {}
          /\ RmCalls("handler") = {}
          /\ made => svc = "present"

\* A run without --rm and without cancellation has ended, the service left
\* running.
C8_Witness ==
    /\ exit = "ok"
    /\ ~opts.rm
    /\ hruns = 0
    /\ made
    /\ svc = "present"

\* C9: in one run the removal call is issued from one origin only: never by
\* the normal flow and by the cancellation handler both.
C9_OneCleanupOrigin ==
    ~(RmCalls("main") # {} /\ RmCalls("handler") # {})

\* C10: when the replica query fails the watch phase has ended, and with an
\* expected replica count of zero the read loop is eventually left (or the
\* process ends), whatever the log stream does.
C10_ZeroReplicasEnds ==
    /\ [](query = "failed" => Ended)
    /\ (pc = "watch_read" /\ query = "ok" /\ replicas = 0)
          ~> (pc # "watch_read" \/ Ended)


\* The lines read so far with (m = TRUE) or without the marker, counted.
Count(m) ==
    LET S == {x \in DOMAIN consumed : x.marker = m}
        RECURSIVE Sum(_)
        Sum(T) == IF T = {} THEN 0
                  ELSE LET x == CHOOSE y \in T : TRUE
                       IN  consumed[x] + Sum(T \ {x})
    IN  Sum(S)

\* How many times the text e has been printed.
Printed(e) == Cardinality({i \in DOMAIN out : out[i] = e})

\* C13: in a run with --logs on a global service with N >= 1 nodes and no
\* signal, the notice is printed at most once and only with exactly N marker
\* lines read, and the normal flow's removal is issued only after the notice.
C13_MarkersNoticeRemoval ==
    (opts.logs /\ signals = 0 /\ query = "ok" /\ replicas >= 1) =>
        /\ Printed("notice") <= 1
        /\ Printed("notice") = 1 => Count(TRUE) = replicas
        /\ RmCalls("main") # {} => Printed("notice") = 1

\* C15: with -q and --logs, whatever the other options, the template is not
\* printed and the creation call's output is not echoed (no drain threads),
\* while every line without the marker that was read has been printed.
C15_QuietWithLogs ==
    (opts.quiet /\ opts.logs) =>
        /\ Printed("template") = 0
        /\ \A i \in DOMAIN procs : procs[i].kind = "create" => ~procs[i].echo
        /\ Printed("LOG") = Count(FALSE)

\* C18: finished is the number of marker lines read, the lines printed as
\* workload output are the lines read without the marker, the notice is
\* printed at most once, and once it is printed the read loop has been left
\* for good (no line is read after it): whatever the platform wrote after
\* the last line read is still unread.
C18_EveryLineHandledOnce ==
    /\ finished = Count(TRUE)
    /\ Printed("LOG") = Count(FALSE)
    /\ Printed("notice") <= 1
    /\ Printed("notice") = 1 =>
          /\ pc # "watch_read"
          /\ wend = "notice"
          /\ finished >= replicas
          /\ Count(TRUE) + Count(FALSE) + Len(stream) = emitted

\* The watcher has read a line with and a line without the marker and has
\* printed the notice.
C18_Witness ==
    /\ wend = "notice"
    /\ Count(TRUE) = 1
    /\ Count(FALSE) = 1
    /\ finished = 1

\* C19: in every state in which the creation call has been started, SIGINT
\* and SIGTERM are both bound to cleanup; a process killed by an unhandled
\* signal has started no creation call and leaves no service.
C19_HandlersBeforeCreate ==
    /\ (\E i \in DOMAIN procs : procs[i].kind = "create")
          => \A sig \in Signals : handler[sig] = "cleanup"
    /\ exit = "signal"
          => (~made /\ \A i \in DOMAIN procs : procs[i].kind # "create")

\* A signal has reached the handler after the creation call was started.
C19_Witness ==
    /\ \E i \in DOMAIN procs : procs[i].kind = "create"
    /\ \E j \in RmCalls("handler") : j > MainCreate
    /\ made

\* C20: whenever output_container_logs has stopped (notice, end of file or
\* the replica query raising), its follow subprocess is no longer running.
C20_FollowEndsWithWatch ==
    wend # "none" => follow # "running"

\* C14: the built template holds, in this order, the user command, the
\* statement echo DOCKER_SWARM_COMMAND_STATUS=1 and the idle loop, for every
\* user command and both modes, and the template for the other mode differs
\* in the value of --mode only.
C14_TemplateOrder ==
    tpl.pc = "built" =>
        LET t == tpl.template
            c == tpl.command
            u == command_template(tpl.name,
                                  CHOOSE m \in Modes : m # tpl.mode, c)
        IN  /\ \E i \in 1 .. Len(t), j \in DOMAIN t, k \in DOMAIN t :
                 /\ i + Len(c) - 1 <= Len(t)
                 /\ SubSeq(t, i, i + Len(c) - 1) = c
                 /\ i + Len(c) <= j
                 /\ t[j] = MarkerStmt
                 /\ j < k
                 /\ t[k] = IdleLoop
            /\ \E q \in DOMAIN t :
                 q > 1 /\ t[q - 1] = "--mode" /\ t[q] = tpl.mode
            /\ Len(u) = Len(t)
            /\ \A q \in DOMAIN t : t[q] # u[q] => (q > 1 /\ t[q - 1] = "--mode")

\* A template built for a user command of two parts that itself holds the
\* text of the marker statement.
C14_Witness ==
    /\ tpl.pc = "built"
    /\ Len(tpl.command) = 2
    /\ tpl.command[1] = MarkerStmt
    /\ tpl.mode = "replicated"

\* C16: two invocations that read the clock within the same second never
\* get the same session name, whatever the random source returns to each.
C16_NamesDiffer ==
    (inv[1].pc = "named" /\ inv[2].pc = "named"
         /\ strftime(inv[1].now) = strftime(inv[2].now))
        => inv[1].name # inv[2].name

\* C11: no call of exec_command, with echoing on or off, reaches a state in
\* which the subprocess is blocked in a write to a full pipe that no thread
\* reads while the caller waits for the subprocess to exit.
C11_NoDeadlockOnFullPipe ==
    ~(/\ call = "wait"
      /\ sub.state = "running"
      /\ sub.want # "none"
      /\ Len(pipe[sub.want]) >= PipeCap
      /\ thr[sub.want].pc \in {"none", "done"})

\* C17: once both stream_output threads have finished, every line the
\* subprocess wrote is in output exactly once.
C17_NoLostUpdate ==
    (\A s \in Streams : thr[s].pc = "done") =>
        \A k \in 1 .. sub.n :
            Cardinality({i \in DOMAIN output : output[i] = k}) = 1

\* The marker lines node n has written, read or not yet read.
MarkersOf(n) ==
    LET l == [marker |-> TRUE, node |-> n]
    IN  Cardinality({i \in DOMAIN stream : stream[i] = l})
          + (IF l \in BagToSet(consumed) THEN consumed[l] ELSE 0)

\* C12: on a global service with N >= 1 nodes, no node writes the marker
\* twice, a node whose user command has ended with a non-zero status comes
\* to have written the marker exactly once, and once the command has ended
\* non-zero on all N nodes the watcher comes to print the notice.
C12_MarkerAfterFailure ==
    /\ \A n \in Nodes : [](MarkersOf(n) <= 1)
    /\ \A n \in Nodes : (node[n].status = "nonzero") ~> (MarkersOf(n) = 1)
    /\ (Swarm # {} /\ \A n \in Swarm : node[n].status = "nonzero")
           ~> (wend = "notice")

====
